---- MODULE Spec2Model ----
(***************************************************************************)
(* The Digital Mirror (src/script.js): the DigitalMirror object, the       *)
(* speech-recognition session it drives, its pending timers and the DOM    *)
(* listeners it installs.  One action per event handler; every handler     *)
(* runs to completion (single UI thread).                                  *)
(*                                                                         *)
(* Pending setTimeout callbacks are a bag of timer kinds and may fire in   *)
(* any order.  The recognition backend delivers result/error/end events    *)
(* only for a started session; start() on a started session throws        *)
(* (InvalidStateError), otherwise it succeeds and an onstart event follows.*)
(* The per-frame glitch jitter of addGlitchEffect and the delayed glitch   *)
(* animation of the verdict text touch only inline style and are left out. *)
(***************************************************************************)
EXTENDS Integers, Sequences, FiniteSets, TLC

\* ---------------------------------------------------------------- constants
maxDistortionLevel == 5
maxRetries == 5

\* bounds of the model
MaxTimers == 2
MaxFallbackEntries == 2

TimerKinds == {"onend", "retry", "fallback", "verdict", "status"}

\* error kinds the backend reports (onerror); a throwing start() is reported
\* by the program itself as "start-failed" or "restart-failed"
BackendErrors ==
    {"aborted", "no-speech", "audio-capture", "not-allowed", "network",
     "service-not-allowed", "language-not-supported"}

Max(a, b) == IF a >= b THEN a ELSE b

\* ------------------------------------------------------------ phrase check
\* variant: the list with a contraction added
humanPhrases_WithContraction ==
    { <<"i"," ","a","m"," ","h","u","m","a","n">>,
      <<"i"," ","a","m"," ","a"," ","h","u","m","a","n">>,
      <<"i"," ","a","m"," ","t","h","e"," ","h","u","m","a","n">>,
      <<"i","'","m"," ","a"," ","h","u","m","a","n">> }

humanPhrases ==
    { <<"i"," ","a","m"," ","h","u","m","a","n">>,
      <<"i"," ","a","m"," ","a"," ","h","u","m","a","n">>,
      <<"i"," ","a","m"," ","t","h","e"," ","h","u","m","a","n">>,
      <<"i"," ","a","m"," ","h","u","m","a","n"," ","b","e","i","n","g">>,
      <<"i"," ","a","m"," ","a"," ","h","u","m","a","n"," ","b","e","i","n","g">>,
      <<"i"," ","a","m"," ","t","h","e"," ","h","u","m","a","n"," ","b","e","i","n","g">>,
      <<"i"," ","a","m"," ","h","u","m","a","n"," ","p","e","r","s","o","n">>,
      <<"i"," ","a","m"," ","a"," ","h","u","m","a","n"," ","p","e","r","s","o","n">>,
      <<"i"," ","a","m"," ","t","h","e"," ","h","u","m","a","n"," ","p","e","r","s","o","n">> }

\* String.prototype.includes
Includes(text, phrase) ==
    \E i \in 0..(Len(text) - Len(phrase)) :
        \A j \in 1..Len(phrase) : text[i + j] = phrase[j]

LowerChar(c) ==
    CASE c = "A" -> "a" [] c = "B" -> "b" [] c = "E" -> "e" [] c = "G" -> "g"
      [] c = "H" -> "h" [] c = "I" -> "i" [] c = "M" -> "m" [] c = "N" -> "n"
      [] c = "O" -> "o" [] c = "P" -> "p" [] c = "R" -> "r" [] c = "S" -> "s"
      [] c = "T" -> "t" [] c = "U" -> "u" [] OTHER -> c

\* a toLowerCase that leaves the text as it is
toLowerCase_Identity(text) == text

\* String.prototype.toLowerCase
toLowerCase(text) == [i \in 1..Len(text) |-> LowerChar(text[i])]

\* String.prototype.trim
RECURSIVE trim(_)
trim(text) ==
    IF text = <<>> THEN text
    ELSE IF Head(text) = " " THEN trim(Tail(text))
    ELSE IF text[Len(text)] = " " THEN trim(SubSeq(text, 1, Len(text) - 1))
    ELSE text

\* a check that looks for "i am" and "human" separately
detectHumanPhrase_Loose(transcript) ==
    /\ Includes(transcript, <<"i"," ","a","m">>)
    /\ Includes(transcript, <<"h","u","m","a","n">>)

detectHumanPhrase(transcript) ==
    \E phrase \in humanPhrases : Includes(transcript, phrase)

\* the normalisation recognition.onresult applies to the newest transcript
transcriptOf(raw) == trim(toLowerCase(raw))

\* what the recognizer hands over as the newest utterance
Transcripts ==
    { <<"I"," ","a","m"," ","h","u","m","a","n">>,
      <<" ","h","e","l","l","o"," ">>,
      <<"i"," ","a","m"," ","n","o","t"," ","h","u","m","a","n">> }

\* an earlier utterance that is still in event.results (continuous mode)
EarlierResults ==
    { <<"i"," ","a","m"," ","h","u","m","a","n">> }

\* event.results of a result event: the newest utterance last, alone or after
\* an earlier one
ResultEvents ==
    {<<raw>> : raw \in Transcripts}
        \cup {<<old, raw>> : old \in EarlierResults, raw \in Transcripts}

\* the check of recognition.onresult on each transcript the recognizer can
\* hand over, tabulated: normalise, then detectHumanPhrase
accepted ==
    [raw \in Transcripts \cup EarlierResults |->
        detectHumanPhrase(transcriptOf(raw))]

\* utterances for the phrase check on its own: prefix, core, suffix
UtterancePrefixes ==
    { <<>>, <<" ">>, <<"w","e","l","l",","," ">>, <<"h">> }

UtteranceCores ==
    { <<"i"," ","a","m"," ","h","u","m","a","n">>,
      <<"I"," ","A","M"," ","H","U","M","A","N">>,
      <<"I"," ","A","m"," ","A"," ","H","u","m","a","n">>,
      <<"i"," ","a","m"," ","a"," ","h","u","m","a","n"," ","b","e","i","n","g">>,
      <<"i"," ","a","m"," ","t","h","e"," ","h","u","m","a","n"," ","p","e","r","s","o","n">>,
      <<"i"," ","a","m"," ","n","o","t"," ","h","u","m","a","n">>,
      <<"i"," ","a","m"," ","a"," ","r","o","b","o","t">>,
      <<"i","a","m"," ","h","u","m","a","n">>,
      <<"i"," ","a","m"," "," ","h","u","m","a","n">>,
      <<"h","u","m","a","n"," ","i"," ","a","m">>,
      <<"i","'","m"," ","a"," ","h","u","m","a","n">>,
      <<"h","e","l","l","o">> }

UtteranceSuffixes ==
    { <<>>, <<"!">>, <<" ">>, <<","," ","y","e","s">> }

Utterances ==
    {p \o c \o x : p \in UtterancePrefixes, c \in UtteranceCores,
                    x \in UtteranceSuffixes}

\* keydown events: code and key
KeyEvents ==
    { [code |-> "Space", key |-> " "], [code |-> "KeyH", key |-> "h"],
      [code |-> "KeyH", key |-> "H"], [code |-> "KeyX", key |-> "x"] }

IsTriggerKey(event) == event.code = "Space" \/ LowerChar(event.key) = "h"

\* ------------------------------------------ the interim-results variant
\* bounds of the variant's model
MaxResults == 2
MaxUtterances == 5

InterimTimerKinds == {"restart", "status", "verdict"}

\* checkPhraseMatch: the first phrase contained in the transcript ends the
\* loop with true
checkPhraseMatch(transcript) ==
    \E phrase \in
          { <<"i"," ","a","m"," ","h","u","m","a","n">>,
            <<"i","'","m"," ","h","u","m","a","n">>,
            <<"i"," ","a","m"," ","a"," ","h","u","m","a","n">>,
            <<"i","'","m"," ","a"," ","h","u","m","a","n">>,
            <<"i"," ","a","m"," ","t","h","e"," ","h","u","m","a","n">>,
            <<"i","'","m"," ","t","h","e"," ","h","u","m","a","n">>,
            <<"i"," ","a","m"," ","h","u","m","a","n"," ","b","e","i","n","g">>,
            <<"i","'","m"," ","h","u","m","a","n"," ","b","e","i","n","g">>,
            <<"i"," ","a","m"," ","a"," ","h","u","m","a","n"," ","b","e","i","n","g">>,
            <<"i","'","m"," ","a"," ","h","u","m","a","n"," ","b","e","i","n","g">> } :
        Includes(transcript, phrase)

\* transcripts of the alternatives the recognizer hands over
InterimTranscripts ==
    { <<" ","h","e","l","l","o"," ">>,
      <<"I"," ","a","m"," ","h","u","m","a","n">>,
      <<"I","'","m"," ","a"," ","h","u","m","a","n">> }

\* the check of the variant's onresult on each of them, tabulated:
\* toLowerCase().trim(), then checkPhraseMatch
phraseMatch ==
    [raw \in InterimTranscripts |-> checkPhraseMatch(transcriptOf(raw))]

\* the alternatives of one result, best first
InterimAlternatives ==
    { <<<<" ","h","e","l","l","o"," ">>>>,
      <<<<"I"," ","a","m"," ","h","u","m","a","n">>>>,
      <<<<" ","h","e","l","l","o"," ">>,
        <<"I","'","m"," ","a"," ","h","u","m","a","n">>>> }

\* one SpeechRecognitionResult
InterimResults ==
    [alternatives : InterimAlternatives, isFinal : BOOLEAN]

\* the result has an alternative with an accepted phrase
Accepted(result) ==
    \E j \in 1..Len(result.alternatives) : phraseMatch[result.alternatives[j]]

\* ------------------------------------------------------------------- state
VARIABLES
    initPc,                 \* where init()/retryWebcam() is suspended
    capability,             \* window offers (webkit)SpeechRecognition
    distortionLevel, humanityPercentage, isListening, fallbackActive, retryCount,
    recognition,            \* this.recognition is set
    sessionActive,          \* backend: the session is started and has not ended
    pendingStart,           \* backend: onstart not yet delivered
    stopRequested,          \* backend: stop() was called on the started session
    indicator,              \* listeningIndicator.textContent
    webcamClass,            \* distortion tiers in webcam.className
    humanityText,           \* percentage shown in humanityLevel.textContent
    verdictDisplay, overlayDisplay, errorDisplay, cleanInstructionDisplay,
    timers,                 \* pending setTimeout callbacks, by kind
    keydownListeners, clickListeners, testButtons,
    buttonListeners,        \* reset and retry buttons are wired
    loopRunning,            \* the ambient animation loop reschedules itself
    tracks,                 \* the tracks of webcam.srcObject: "none" (no
                            \* stream), "live" or "stopped"
    consecErrors,           \* history: transient errors handled while listening
                            \* since the last successful start() or reset
    heard, matched,         \* the phrase check on its own: the raw utterance
                            \* and what the check made of it
    interimMirror,          \* the DigitalMirror object of the interim-results
                            \* variant and its recognition session
    sessionResults,         \* variant: event.results of the running session
    acceptedUtterances,     \* variant, history: utterances of the speaker
                            \* that contained an accepted phrase
    errorPhase,             \* history of the single-error runs: "none",
                            \* "reported" (the error event is delivered) or
                            \* "ended" (its end-of-session event too)
    lastOp                  \* history: the handler that ran last ("ignored":
                            \* one that returned without doing anything)

vars ==
    <<initPc, capability, distortionLevel, humanityPercentage, isListening,
      fallbackActive, retryCount, recognition, sessionActive, pendingStart,
      stopRequested, indicator, webcamClass, humanityText, verdictDisplay,
      overlayDisplay, errorDisplay, cleanInstructionDisplay,
      timers, keydownListeners, clickListeners, testButtons, buttonListeners,
      loopRunning, tracks, consecErrors, heard, matched,
      interimMirror, sessionResults, acceptedUtterances, errorPhase, lastOp>>

\* the variables of the interim-results variant
interimVars == <<interimMirror, sessionResults, acceptedUtterances>>

\* the variables of the object of src/script.js and its environment
mainVars ==
    <<initPc, capability, distortionLevel, humanityPercentage, isListening,
      fallbackActive, retryCount, recognition, sessionActive, pendingStart,
      stopRequested, indicator, webcamClass, humanityText, verdictDisplay,
      overlayDisplay, errorDisplay, cleanInstructionDisplay,
      timers, keydownListeners, clickListeners, testButtons, buttonListeners,
      loopRunning, tracks, consecErrors, errorPhase, lastOp>>

\* the object and its environment as one record, for the handlers below
World ==
    [distortionLevel |-> distortionLevel, humanityPercentage |-> humanityPercentage,
     isListening |-> isListening, fallbackActive |-> fallbackActive,
     retryCount |-> retryCount, recognition |-> recognition,
     sessionActive |-> sessionActive, pendingStart |-> pendingStart,
     stopRequested |-> stopRequested, indicator |-> indicator,
     webcamClass |-> webcamClass, humanityText |-> humanityText,
     verdictDisplay |-> verdictDisplay, overlayDisplay |-> overlayDisplay,
     errorDisplay |-> errorDisplay,
     cleanInstructionDisplay |-> cleanInstructionDisplay,
     timers |-> timers,
     keydownListeners |-> keydownListeners, clickListeners |-> clickListeners,
     testButtons |-> testButtons, buttonListeners |-> buttonListeners,
     loopRunning |-> loopRunning, tracks |-> tracks,
     consecErrors |-> consecErrors]

Pending(t) ==
    t["onend"] + t["retry"] + t["fallback"] + t["verdict"] + t["status"]

\* the handler's result becomes the next state (within the model's bounds)
Commit(w) ==
    /\ Pending(w.timers) <= MaxTimers
    /\ w.keydownListeners <= MaxFallbackEntries
    /\ distortionLevel' = w.distortionLevel
    /\ humanityPercentage' = w.humanityPercentage
    /\ isListening' = w.isListening
    /\ fallbackActive' = w.fallbackActive
    /\ retryCount' = w.retryCount
    /\ recognition' = w.recognition
    /\ sessionActive' = w.sessionActive
    /\ pendingStart' = w.pendingStart
    /\ stopRequested' = w.stopRequested
    /\ indicator' = w.indicator
    /\ webcamClass' = w.webcamClass
    /\ humanityText' = w.humanityText
    /\ verdictDisplay' = w.verdictDisplay
    /\ overlayDisplay' = w.overlayDisplay
    /\ errorDisplay' = w.errorDisplay
    /\ cleanInstructionDisplay' = w.cleanInstructionDisplay
    /\ timers' = w.timers
    /\ keydownListeners' = w.keydownListeners
    /\ clickListeners' = w.clickListeners
    /\ testButtons' = w.testButtons
    /\ buttonListeners' = w.buttonListeners
    /\ loopRunning' = w.loopRunning
    /\ tracks' = w.tracks
    /\ consecErrors' = w.consecErrors

\* ---------------------------------------------------------------- helpers
setTimeout(w, kind) == [w EXCEPT !.timers[kind] = @ + 1]

showListeningIndicator(w, text) == [w EXCEPT !.indicator = text]

\* SpeechRecognition.start(): throws on a started session
startThrows(w) == w.sessionActive

recognitionStart(w) ==
    [w EXCEPT !.sessionActive = TRUE, !.pendingStart = TRUE, !.consecErrors = 0]

\* SpeechRecognition.stop(): the session ends later, with an onend event
recognitionStop(w) == [w EXCEPT !.stopRequested = w.sessionActive]

enableFallbackControls(w) ==
    [w EXCEPT !.keydownListeners = @ + 1, !.clickListeners = @ + 1]

addTestButton(w) == [w EXCEPT !.testButtons = @ + 1]

\* variant: the retry counter is not cleared on fallback entry
fallbackToAlternativeMethods_KeepRetry(w) ==
    addTestButton(enableFallbackControls(showListeningIndicator(
        [w EXCEPT !.fallbackActive = TRUE, !.isListening = FALSE],
        "Fallback Mode")))

fallbackToAlternativeMethods(w) ==
    addTestButton(enableFallbackControls(showListeningIndicator(
        [w EXCEPT !.fallbackActive = TRUE, !.isListening = FALSE, !.retryCount = 0],
        "Fallback Mode")))

shouldRestart(error) ==
    CASE error = "aborted" -> TRUE
      [] error = "no-speech" -> TRUE
      [] error = "audio-capture" -> FALSE
      [] error = "not-allowed" -> FALSE
      [] error = "network" -> FALSE
      [] error = "service-not-allowed" -> FALSE
      [] OTHER -> TRUE

\* variant: one retry more than maxRetries before falling back
handleSpeechError_ExtraRetry(w, error) ==
    IF shouldRestart(error) /\ w.isListening
    THEN LET w1 == [w EXCEPT !.retryCount = @ + 1, !.consecErrors = @ + 1]
         IN  IF w1.retryCount <= maxRetries + 1
             THEN setTimeout(showListeningIndicator(w1, "Restarting..."), "retry")
             ELSE fallbackToAlternativeMethods(w1)
    ELSE setTimeout(showListeningIndicator(w, "Error"), "fallback")

\* variant: a permanent error falls back only once the retry budget is used up
handleSpeechError_BudgetedFallback(w, error) ==
    IF shouldRestart(error) /\ w.isListening
    THEN LET w1 == [w EXCEPT !.retryCount = @ + 1, !.consecErrors = @ + 1]
         IN  IF w1.retryCount <= maxRetries
             THEN setTimeout(showListeningIndicator(w1, "Restarting..."), "retry")
             ELSE fallbackToAlternativeMethods(w1)
    ELSE IF w.retryCount < maxRetries
    THEN showListeningIndicator(w, "Error")
    ELSE setTimeout(showListeningIndicator(w, "Error"), "fallback")

\* variant: a transient error is retried without counting it
handleSpeechError_EndlessRetry(w, error) ==
    IF shouldRestart(error) /\ w.isListening
    THEN setTimeout(showListeningIndicator(w, "Restarting..."), "retry")
    ELSE setTimeout(showListeningIndicator(w, "Error"), "fallback")

handleSpeechError(w, error) ==
    IF shouldRestart(error) /\ w.isListening
    THEN LET w1 == [w EXCEPT !.retryCount = @ + 1, !.consecErrors = @ + 1]
         IN  IF w1.retryCount <= maxRetries
             THEN setTimeout(showListeningIndicator(w1, "Restarting..."), "retry")
             ELSE fallbackToAlternativeMethods(w1)
    ELSE setTimeout(showListeningIndicator(w, "Error"), "fallback")

\* variant: the session is stopped but isListening is left as it is
stopListening_KeepListening(w) ==
    IF w.recognition THEN recognitionStop(w) ELSE w

\* variant: stopping also cancels the animation loop
stopListening_CancelsLoop(w) ==
    LET w1 == [w EXCEPT !.isListening = FALSE, !.loopRunning = FALSE]
    IN  IF w1.recognition THEN recognitionStop(w1) ELSE w1

stopListening(w) ==
    LET w1 == [w EXCEPT !.isListening = FALSE]
    IN  IF w1.recognition THEN recognitionStop(w1) ELSE w1
        \* animationId is never assigned: cancelAnimationFrame is not reached

updateDistortion(w) ==
    LET w1 == [w EXCEPT !.webcamClass =
                   IF w.distortionLevel > 0 THEN {w.distortionLevel} ELSE {},
                        !.humanityText = w.humanityPercentage]
    IN  IF w1.distortionLevel >= maxDistortionLevel
        THEN [w1 EXCEPT !.cleanInstructionDisplay = FALSE]
        ELSE w1

\* variant: no ceiling check
processHumanClaim_NoCeiling(w) ==
    LET w1 == [w EXCEPT !.distortionLevel = @ + 1,
                        !.humanityPercentage =
                            Max(0, 100 - ((w.distortionLevel + 1) * 20))]
        w2 == showListeningIndicator(updateDistortion(w1), "Processing...")
    IN  IF w2.distortionLevel >= maxDistortionLevel
        THEN setTimeout(w2, "verdict")
        ELSE setTimeout(w2, "status")

\* variant: a claim below the ceiling skips a level
processHumanClaim_DoubleStep(w) ==
    IF w.distortionLevel >= maxDistortionLevel
    THEN w
    ELSE LET l == IF w.distortionLevel + 2 > maxDistortionLevel
                  THEN maxDistortionLevel ELSE w.distortionLevel + 2
             w1 == [w EXCEPT !.distortionLevel = l,
                             !.humanityPercentage = Max(0, 100 - (l * 20))]
             w2 == showListeningIndicator(updateDistortion(w1), "Processing...")
         IN  IF w2.distortionLevel >= maxDistortionLevel
             THEN setTimeout(w2, "verdict")
             ELSE setTimeout(w2, "status")

\* variant: a claim at the ceiling schedules the verdict again
processHumanClaim_Retrigger(w) ==
    IF w.distortionLevel >= maxDistortionLevel
    THEN setTimeout(w, "verdict")
    ELSE LET w1 == [w EXCEPT !.distortionLevel = @ + 1,
                             !.humanityPercentage =
                                 Max(0, 100 - ((w.distortionLevel + 1) * 20))]
             w2 == showListeningIndicator(updateDistortion(w1), "Processing...")
         IN  IF w2.distortionLevel >= maxDistortionLevel
             THEN setTimeout(w2, "verdict")
             ELSE setTimeout(w2, "status")

\* variant: a claim also clears the retry counter
processHumanClaim_ClearsRetry(w) ==
    IF w.distortionLevel >= maxDistortionLevel
    THEN w
    ELSE LET w1 == [w EXCEPT !.distortionLevel = @ + 1,
                             !.humanityPercentage =
                                 Max(0, 100 - ((w.distortionLevel + 1) * 20)),
                             !.retryCount = 0]
             w2 == showListeningIndicator(updateDistortion(w1), "Processing...")
         IN  IF w2.distortionLevel >= maxDistortionLevel
             THEN setTimeout(w2, "verdict")
             ELSE setTimeout(w2, "status")

processHumanClaim(w) ==
    IF w.distortionLevel >= maxDistortionLevel
    THEN w
    ELSE LET w1 == [w EXCEPT !.distortionLevel = @ + 1,
                             !.humanityPercentage =
                                 Max(0, 100 - ((w.distortionLevel + 1) * 20))]
             w2 == showListeningIndicator(updateDistortion(w1), "Processing...")
         IN  IF w2.distortionLevel >= maxDistortionLevel
             THEN setTimeout(w2, "verdict")
             ELSE setTimeout(w2, "status")

showVerdict(w) ==
    stopListening([w EXCEPT !.verdictDisplay = TRUE, !.overlayDisplay = FALSE,
                            !.webcamClass = @ \cup {5}])

\* variant: the retry counter survives a reset
resetMirror_KeepRetry(w) ==
    LET w1 == [w EXCEPT !.distortionLevel = 0, !.humanityPercentage = 100,
                        !.webcamClass = {}, !.verdictDisplay = FALSE,
                        !.overlayDisplay = TRUE, !.cleanInstructionDisplay = TRUE,
                        !.consecErrors = 0]
    IN  IF w1.recognition
        THEN IF startThrows(w1)
             THEN w1
             ELSE [showListeningIndicator(
                      [recognitionStart(w1) EXCEPT !.isListening = TRUE],
                      "Listening...") EXCEPT !.humanityText = 100]
        ELSE IF w1.fallbackActive
        THEN [showListeningIndicator(w1, "Fallback Mode") EXCEPT !.humanityText = 100]
        ELSE [showListeningIndicator(w1, "") EXCEPT !.humanityText = 100]

\* variant: a reset that restarts recognition leaves fallback mode
resetMirror_EndsFallback(w) ==
    LET w1 == [w EXCEPT !.distortionLevel = 0, !.humanityPercentage = 100,
                        !.webcamClass = {}, !.verdictDisplay = FALSE,
                        !.overlayDisplay = TRUE, !.cleanInstructionDisplay = TRUE,
                        !.consecErrors = 0]
    IN  IF w1.recognition
        THEN LET w2 == [w1 EXCEPT !.retryCount = 0]
             IN  IF startThrows(w2)
                 THEN w2
                 ELSE [showListeningIndicator(
                          [recognitionStart(w2) EXCEPT !.isListening = TRUE,
                                                       !.fallbackActive = FALSE],
                          "Listening...") EXCEPT !.humanityText = 100]
        ELSE IF w1.fallbackActive
        THEN [showListeningIndicator(w1, "Fallback Mode") EXCEPT !.humanityText = 100]
        ELSE [showListeningIndicator(w1, "") EXCEPT !.humanityText = 100]

resetMirror(w) ==
    LET w1 == [w EXCEPT !.distortionLevel = 0, !.humanityPercentage = 100,
                        !.webcamClass = {}, !.verdictDisplay = FALSE,
                        !.overlayDisplay = TRUE, !.cleanInstructionDisplay = TRUE,
                        !.consecErrors = 0]
    IN  IF w1.recognition
        THEN LET w2 == [w1 EXCEPT !.retryCount = 0]
             IN  IF startThrows(w2)
                 THEN w2     \* the exception leaves the click handler here
                 ELSE [showListeningIndicator(
                          [recognitionStart(w2) EXCEPT !.isListening = TRUE],
                          "Listening...") EXCEPT !.humanityText = 100]
        ELSE IF w1.fallbackActive
        THEN [showListeningIndicator(w1, "Fallback Mode") EXCEPT !.humanityText = 100]
        ELSE [showListeningIndicator(w1, "") EXCEPT !.humanityText = 100]

showError(w) == [w EXCEPT !.errorDisplay = TRUE, !.overlayDisplay = FALSE]

setupSpeechRecognition(w) ==
    LET w1 == [w EXCEPT !.recognition = TRUE,
                        \* a new SpeechRecognition object: not started
                        !.sessionActive = FALSE, !.pendingStart = FALSE,
                        !.stopRequested = FALSE]
    IN  IF startThrows(w1)
        THEN handleSpeechError(w1, "start-failed")
        ELSE [recognitionStart(w1) EXCEPT !.isListening = TRUE]

\* variant: a missing capability is handled like a recognition error
setupAudioDetection_DelayedFallback(w, supported) ==
    LET w1 == showListeningIndicator(w, "Initializing...")
    IN  IF supported
        THEN setupSpeechRecognition(w1)
        ELSE handleSpeechError(w1, "not-supported")

setupAudioDetection(w, supported) ==
    LET w1 == showListeningIndicator(w, "Initializing...")
    IN  IF supported
        THEN setupSpeechRecognition(w1)
        ELSE fallbackToAlternativeMethods(w1)

\* variant: the manual triggers are wired together with the buttons
setupEventListeners_WithTriggers(w) ==
    enableFallbackControls([w EXCEPT !.buttonListeners = TRUE])

setupEventListeners(w) == [w EXCEPT !.buttonListeners = TRUE]

startDistortionLoop(w) == [w EXCEPT !.loopRunning = TRUE]

\* variant: the restart callback of recognition.onend without its
\* isListening guard
onendTimer_Unguarded(w) ==
    IF w.recognition
    THEN IF startThrows(w) THEN handleSpeechError(w, "restart-failed")
         ELSE recognitionStart(w)
    ELSE w

\* variant: the restart callback of recognition.onend restarting unless
\* fallback mode is on
onendTimer_UnlessFallback(w) ==
    IF ~w.fallbackActive /\ w.recognition
    THEN IF startThrows(w) THEN handleSpeechError(w, "restart-failed")
         ELSE recognitionStart(w)
    ELSE w

\* the restart callbacks of recognition.onend and handleSpeechError
onendTimer(w) ==
    IF w.isListening /\ w.recognition
    THEN IF startThrows(w) THEN handleSpeechError(w, "restart-failed")
         ELSE recognitionStart(w)
    ELSE w

retryTimer(w) ==
    IF w.isListening /\ w.recognition
    THEN IF startThrows(w) THEN handleSpeechError(w, "restart-failed")
         ELSE showListeningIndicator(recognitionStart(w), "Listening...")
    ELSE w

\* variant: the label is restored only while listening
statusTimer_OnlyWhileListening(w) ==
    IF w.isListening THEN showListeningIndicator(w, "Listening...") ELSE w

statusTimer(w) ==
    IF w.recognition THEN showListeningIndicator(w, "Listening...")
    ELSE showListeningIndicator(w, "Fallback Mode")

RECURSIVE Times(_, _)
\* every installed listener of the event runs processHumanClaim once
Times(n, w) == IF n = 0 THEN w ELSE Times(n - 1, processHumanClaim(w))

keydownHandlers(w, event) ==
    IF IsTriggerKey(event) THEN Times(w.keydownListeners, w) ELSE w

clickHandlers(w) == Times(w.clickListeners, w)

\* recognition.onresult claiming once for every accepted result in the list
onresult_EveryResult(w, results) ==
    Times(Cardinality({i \in 1..Len(results) : accepted[results[i]]}), w)

\* recognition.onresult: only the newest result is looked at
onresult(w, results) ==
    LET lastResult == results[Len(results)]
    IN  IF accepted[lastResult] THEN processHumanClaim(w) ELSE w

\* the session ends and recognition.onend runs
onend(w) ==
    LET w1 == [w EXCEPT !.sessionActive = FALSE, !.pendingStart = FALSE,
                        !.stopRequested = FALSE]
    IN  IF w1.isListening THEN setTimeout(w1, "onend") ELSE w1

\* one run of animate(): the canvas opacity is inline style only; the
\* callback asks for the next frame
animate(w) == [w EXCEPT !.loopRunning = TRUE]

\* variant: teardown that stops the recognition session but leaves
\* isListening as it is
cleanup_KeepListening(w) ==
    LET w1 == IF w.recognition THEN recognitionStop(w) ELSE w
    IN  IF w1.tracks # "none" THEN [w1 EXCEPT !.tracks = "stopped"] ELSE w1

\* audioContext is never assigned: close() is not reached
cleanup(w) ==
    LET w1 == stopListening(w)
    IN  IF w1.tracks # "none" THEN [w1 EXCEPT !.tracks = "stopped"] ELSE w1

\* the visibilitychange listener of the document: start() is not guarded,
\* an exception leaves the listener with nothing changed
visibilitychange(w, hidden) ==
    IF ~hidden /\ w.recognition /\ w.isListening
    THEN IF startThrows(w) THEN w ELSE recognitionStart(w)
    ELSE w

\* -------------------------------------------------------------------- Init
Init ==
    /\ initPc = "getUserMedia"
    /\ capability \in BOOLEAN
    /\ distortionLevel = 0
    /\ humanityPercentage = 100
    /\ isListening = FALSE
    /\ fallbackActive = FALSE
    /\ retryCount = 0
    /\ recognition = FALSE
    /\ sessionActive = FALSE
    /\ pendingStart = FALSE
    /\ stopRequested = FALSE
    /\ indicator = ""
    /\ webcamClass = {}
    /\ humanityText = 100
    /\ verdictDisplay = FALSE
    /\ overlayDisplay = TRUE
    /\ errorDisplay = FALSE
    /\ cleanInstructionDisplay = TRUE
    /\ timers = [k \in TimerKinds |-> 0]
    /\ keydownListeners = 0
    /\ clickListeners = 0
    /\ testButtons = 0
    /\ buttonListeners = FALSE
    /\ loopRunning = FALSE
    /\ tracks = "none"
    /\ consecErrors = 0
    /\ heard = <<>>
    /\ matched = FALSE
    /\ interimMirror =
           [distortionLevel |-> 0, humanityPercentage |-> 100,
            isListening |-> FALSE, recognition |-> FALSE,
            sessionActive |-> FALSE, pendingStart |-> FALSE,
            webcamClass |-> {}, verdictDisplay |-> FALSE,
            timers |-> [k \in InterimTimerKinds |-> 0]]
    /\ sessionResults = <<>>
    /\ acceptedUtterances = 0
    /\ errorPhase = "none"
    /\ lastOp = "load"

\* ----------------------------------------------------------------- actions
\* getUserMedia rejects: handleMediaError, then init()'s catch
GetUserMediaFail ==
    /\ initPc \in {"getUserMedia", "retry:getUserMedia"}
    /\ Commit(showError(showError(World)))
    /\ initPc' = "failed"
    /\ lastOp' = "getUserMedia:fail"
    /\ UNCHANGED <<capability, heard, matched, interimVars, errorPhase>>

GetUserMediaOk ==
    /\ initPc \in {"getUserMedia", "retry:getUserMedia"}
    /\ Commit([World EXCEPT !.tracks = "live"])
    /\ initPc' = IF initPc = "getUserMedia" THEN "canplay" ELSE "retry:canplay"
    /\ lastOp' = "getUserMedia:ok"
    /\ UNCHANGED <<capability, heard, matched, interimVars, errorPhase>>

\* canplay resolves setupWebcam(): init() runs on to its end, retryWebcam()
\* likewise
CanPlay ==
    /\ initPc \in {"canplay", "retry:canplay"}
    /\ IF initPc = "canplay"
       THEN Commit(startDistortionLoop(setupEventListeners(
                setupAudioDetection(World, capability))))
       ELSE Commit(setupAudioDetection([World EXCEPT !.overlayDisplay = TRUE],
                                       capability))
    /\ initPc' = "done"
    /\ lastOp' = "canplay"
    /\ UNCHANGED <<capability, heard, matched, interimVars, errorPhase>>

\* a click on the retry button of the error panel
RetryClick ==
    /\ errorDisplay
    /\ initPc \in {"failed", "done"}
    /\ IF buttonListeners
       THEN /\ Commit([World EXCEPT !.errorDisplay = FALSE])
            /\ initPc' = "retry:getUserMedia"
       ELSE /\ Commit(World)
            /\ initPc' = initPc
    /\ lastOp' = "retryClick"
    /\ UNCHANGED <<capability, heard, matched, interimVars, errorPhase>>

ResetClick ==
    /\ buttonListeners
    /\ Commit(resetMirror(World))
    /\ lastOp' = "resetMirror"
    /\ UNCHANGED <<initPc, capability, heard, matched, interimVars, errorPhase>>

OnStart ==
    /\ sessionActive /\ pendingStart
    /\ Commit(showListeningIndicator([World EXCEPT !.pendingStart = FALSE],
                                     "Listening..."))
    /\ lastOp' = "onstart"
    /\ UNCHANGED <<initPc, capability, heard, matched, interimVars, errorPhase>>

OnResult ==
    /\ sessionActive
    /\ \E results \in ResultEvents :
         /\ Commit(onresult(World, results))
         /\ lastOp' = IF accepted[results[Len(results)]]
                      THEN "onresult:claim" ELSE "ignored"
    /\ UNCHANGED <<initPc, capability, heard, matched, interimVars, errorPhase>>

OnError ==
    /\ sessionActive
    /\ \E error \in BackendErrors :
         /\ Commit(handleSpeechError(World, error))
         /\ lastOp' = IF shouldRestart(error) THEN "onerror:transient"
                      ELSE "onerror:permanent"
    /\ UNCHANGED <<initPc, capability, heard, matched, interimVars, errorPhase>>

OnEnd ==
    /\ sessionActive
    /\ Commit(onend(World))
    /\ lastOp' = "onend"
    /\ UNCHANGED <<initPc, capability, heard, matched, interimVars, errorPhase>>

Fire(kind) == [World EXCEPT !.timers[kind] = @ - 1]

TimerOnEnd ==
    /\ timers["onend"] > 0
    /\ Commit(onendTimer(Fire("onend")))
    /\ lastOp' = IF ~(isListening /\ recognition) THEN "ignored"
                 ELSE IF startThrows(World) THEN "timer:onend:failed"
                 ELSE "timer:onend:started"
    /\ UNCHANGED <<initPc, capability, heard, matched, interimVars, errorPhase>>

TimerRetry ==
    /\ timers["retry"] > 0
    /\ Commit(retryTimer(Fire("retry")))
    /\ lastOp' = IF ~(isListening /\ recognition) THEN "ignored"
                 ELSE IF startThrows(World) THEN "timer:retry:failed"
                 ELSE "timer:retry:started"
    /\ UNCHANGED <<initPc, capability, heard, matched, interimVars, errorPhase>>

TimerFallback ==
    /\ timers["fallback"] > 0
    /\ Commit(fallbackToAlternativeMethods(Fire("fallback")))
    /\ lastOp' = "timer:fallback"
    /\ UNCHANGED <<initPc, capability, heard, matched, interimVars, errorPhase>>

TimerVerdict ==
    /\ timers["verdict"] > 0
    /\ Commit(showVerdict(Fire("verdict")))
    /\ lastOp' = "timer:verdict"
    /\ UNCHANGED <<initPc, capability, heard, matched, interimVars, errorPhase>>

TimerStatus ==
    /\ timers["status"] > 0
    /\ Commit(statusTimer(Fire("status")))
    /\ lastOp' = "timer:status"
    /\ UNCHANGED <<initPc, capability, heard, matched, interimVars, errorPhase>>

KeyDown ==
    /\ \E event \in KeyEvents :
         /\ Commit(keydownHandlers(World, event))
         /\ lastOp' = IF keydownListeners = 0 THEN lastOp
                      ELSE IF IsTriggerKey(event) THEN "keydown" ELSE "ignored"
    /\ UNCHANGED <<initPc, capability, heard, matched, interimVars, errorPhase>>

WebcamClick ==
    /\ Commit(clickHandlers(World))
    /\ lastOp' = IF clickListeners = 0 THEN lastOp ELSE "click"
    /\ UNCHANGED <<initPc, capability, heard, matched, interimVars, errorPhase>>

TestButtonClick ==
    /\ testButtons > 0
    /\ Commit(processHumanClaim(World))
    /\ lastOp' = "testButton"
    /\ UNCHANGED <<initPc, capability, heard, matched, interimVars, errorPhase>>

\* the tab is hidden or shown again
VisibilityChange ==
    /\ \E hidden \in BOOLEAN :
         /\ Commit(visibilitychange(World, hidden))
         /\ lastOp' = IF hidden \/ ~(recognition /\ isListening) THEN "ignored"
                      ELSE IF startThrows(World) THEN "visible:failed"
                      ELSE "visible:started"
    /\ UNCHANGED <<initPc, capability, heard, matched, interimVars, errorPhase>>

\* a display-refresh tick while the loop is scheduled
AnimationFrame ==
    /\ loopRunning
    /\ Commit(animate(World))
    /\ UNCHANGED <<initPc, capability, heard, matched, interimVars, errorPhase,
                   lastOp>>

Next ==
    \/ GetUserMediaFail
    \/ GetUserMediaOk
    \/ CanPlay
    \/ RetryClick
    \/ ResetClick
    \/ OnStart
    \/ OnResult
    \/ OnError
    \/ OnEnd
    \/ TimerOnEnd
    \/ TimerRetry
    \/ TimerFallback
    \/ TimerVerdict
    \/ TimerStatus
    \/ KeyDown
    \/ WebcamClick
    \/ TestButtonClick
    \/ VisibilityChange
    \/ AnimationFrame

Spec == Init /\ [][Next]_vars

\* a callback handed to setTimeout is run once its delay is over
FairSpec ==
    /\ Spec
    /\ WF_vars(TimerOnEnd)
    /\ WF_vars(TimerRetry)
    /\ WF_vars(TimerFallback)
    /\ WF_vars(TimerVerdict)
    /\ WF_vars(TimerStatus)

\* page teardown: the beforeunload listener runs cleanup(); the page keeps
\* handling events until it is actually unloaded
BeforeUnload ==
    /\ Commit(cleanup(World))
    /\ lastOp' = "cleanup"
    /\ UNCHANGED <<initPc, capability, heard, matched, interimVars, errorPhase>>

TeardownNext ==
    \/ Next
    \/ BeforeUnload

TeardownSpec == Init /\ [][TeardownNext]_vars

\* runs in which the backend reports one transient error at most and no
\* permanent one, nobody resets and the tab stays visible:
\* recognition.onerror is delivered once
OnSingleError ==
    /\ sessionActive
    /\ errorPhase = "none"
    /\ \E error \in {e \in BackendErrors : shouldRestart(e)} :
         Commit(handleSpeechError(World, error))
    /\ errorPhase' = "reported"
    /\ lastOp' = "onerror:transient"
    /\ UNCHANGED <<initPc, capability, heard, matched, interimVars>>

\* the session that reported the error ends
OnSingleErrorEnd ==
    /\ sessionActive
    /\ errorPhase = "reported"
    /\ Commit(onend(World))
    /\ errorPhase' = "ended"
    /\ lastOp' = "onend"
    /\ UNCHANGED <<initPc, capability, heard, matched, interimVars>>

SingleErrorNext ==
    \/ GetUserMediaFail
    \/ GetUserMediaOk
    \/ CanPlay
    \/ RetryClick
    \/ OnStart
    \/ OnResult
    \/ OnSingleError
    \/ OnSingleErrorEnd
    \/ errorPhase # "reported" /\ OnEnd
    \/ TimerOnEnd
    \/ TimerRetry
    \/ TimerVerdict
    \/ TimerStatus
    \/ KeyDown
    \/ WebcamClick
    \/ TestButtonClick
    \/ AnimationFrame

SingleErrorSpec == Init /\ [][SingleErrorNext]_vars

\* the phrase check on its own: the recognizer hands over an utterance and
\* the check of recognition.onresult is applied to it
Hear ==
    /\ \E raw \in Utterances :
         /\ heard' = raw
         /\ matched' = detectHumanPhrase(transcriptOf(raw))
    /\ UNCHANGED <<initPc, capability, distortionLevel, humanityPercentage,
                   isListening, fallbackActive, retryCount, recognition,
                   sessionActive, pendingStart, stopRequested, indicator,
                   webcamClass, humanityText, verdictDisplay, overlayDisplay,
                   errorDisplay, cleanInstructionDisplay, timers,
                   keydownListeners, clickListeners, testButtons,
                   buttonListeners, loopRunning, tracks, consecErrors, lastOp,
                   interimVars, errorPhase>>

PhraseNext == Hear

PhraseSpec == Init /\ [][PhraseNext]_vars

\* ------------------------------------------ the interim-results variant
InterimPending(t) == t["restart"] + t["status"] + t["verdict"]

\* the handler's result becomes the next state of the variant's object
InterimCommit(m) ==
    /\ InterimPending(m.timers) <= MaxTimers
    /\ interimMirror' = m

interimSetTimeout(m, kind) == [m EXCEPT !.timers[kind] = @ + 1]

interimFire(kind) == [interimMirror EXCEPT !.timers[kind] = @ - 1]

\* recognition.start() inside try/catch: a throwing start() changes nothing
interimStart(m) ==
    IF m.sessionActive THEN m
    ELSE [m EXCEPT !.sessionActive = TRUE, !.pendingStart = TRUE]

interimUpdateDistortion(m) ==
    [m EXCEPT !.webcamClass =
        IF m.distortionLevel > 0 THEN {m.distortionLevel} ELSE {}]

interimProcessHumanClaim(m) ==
    IF m.distortionLevel >= maxDistortionLevel
    THEN m
    ELSE LET m1 == [m EXCEPT !.distortionLevel = @ + 1,
                             !.humanityPercentage =
                                 Max(0, 100 - ((m.distortionLevel + 1) * 20))]
             m2 == interimUpdateDistortion(m1)
         IN  IF m2.distortionLevel >= maxDistortionLevel
             THEN interimSetTimeout(m2, "verdict")
             ELSE interimSetTimeout(m2, "status")

interimShowVerdict(m) ==
    [m EXCEPT !.verdictDisplay = TRUE, !.webcamClass = @ \cup {5}]

\* recognition.onresult of the variant: every result of the list and every
\* alternative is checked; the first match claims and returns
interimOnresult(m, results) ==
    IF \E i \in 1..Len(results) : Accepted(results[i])
    THEN interimProcessHumanClaim(m)
    ELSE m

\* recognition.onend of the variant
interimOnend(m) == interimSetTimeout([m EXCEPT !.isListening = FALSE], "restart")

\* the restart callback of recognition.onend
interimRestartTimer(m) ==
    IF ~m.isListening /\ m.distortionLevel < maxDistortionLevel
    THEN interimStart(m)
    ELSE m

\* what the backend can make of the result list with its next event: a new
\* result after a final one, or the last interim result revised or made
\* final (a hypothesis that already holds the phrase is only made final)
NextResultLists(rs) ==
    {Append(rs, r) : r \in
        {x \in InterimResults :
            /\ Len(rs) < MaxResults
            /\ rs = <<>> \/ rs[Len(rs)].isFinal}}
    \cup
    {[rs EXCEPT ![Len(rs)] = r] : r \in
        {x \in InterimResults :
            /\ rs # <<>>
            /\ ~rs[Len(rs)].isFinal
            /\ x # rs[Len(rs)]
            /\ Accepted(rs[Len(rs)]) =>
                   x.alternatives = rs[Len(rs)].alternatives}}

\* the next event delivers an utterance with an accepted phrase that the
\* list did not hold before
NewlyAccepted(rs, next) ==
    /\ Accepted(next[Len(next)])
    /\ Len(next) > Len(rs) \/ ~Accepted(rs[Len(rs)])

\* setupSpeechRecognition of the variant
InterimSetup ==
    /\ ~interimMirror.recognition
    /\ InterimCommit(interimStart([interimMirror EXCEPT !.recognition = TRUE]))
    /\ UNCHANGED <<mainVars, heard, matched, sessionResults, acceptedUtterances>>

InterimOnStart ==
    /\ interimMirror.sessionActive /\ interimMirror.pendingStart
    /\ InterimCommit([interimMirror EXCEPT !.isListening = TRUE,
                                           !.pendingStart = FALSE])
    /\ UNCHANGED <<mainVars, heard, matched, sessionResults, acceptedUtterances>>

InterimOnResult ==
    /\ interimMirror.sessionActive /\ ~interimMirror.pendingStart
    /\ \E next \in NextResultLists(sessionResults) :
         /\ sessionResults' = next
         /\ acceptedUtterances' =
                IF NewlyAccepted(sessionResults, next)
                THEN acceptedUtterances + 1 ELSE acceptedUtterances
         /\ acceptedUtterances' <= MaxUtterances
         /\ InterimCommit(interimOnresult(interimMirror, next))
    /\ UNCHANGED <<mainVars, heard, matched>>

\* the session ends; the next one starts with an empty result list
InterimOnEnd ==
    /\ interimMirror.sessionActive
    /\ InterimCommit(interimOnend([interimMirror EXCEPT
                                       !.sessionActive = FALSE,
                                       !.pendingStart = FALSE]))
    /\ sessionResults' = <<>>
    /\ UNCHANGED <<mainVars, heard, matched, acceptedUtterances>>

InterimTimerRestart ==
    /\ interimMirror.timers["restart"] > 0
    /\ InterimCommit(interimRestartTimer(interimFire("restart")))
    /\ UNCHANGED <<mainVars, heard, matched, sessionResults, acceptedUtterances>>

\* the status callback only rewrites the status text
InterimTimerStatus ==
    /\ interimMirror.timers["status"] > 0
    /\ InterimCommit(interimFire("status"))
    /\ UNCHANGED <<mainVars, heard, matched, sessionResults, acceptedUtterances>>

InterimTimerVerdict ==
    /\ interimMirror.timers["verdict"] > 0
    /\ InterimCommit(interimShowVerdict(interimFire("verdict")))
    /\ UNCHANGED <<mainVars, heard, matched, sessionResults, acceptedUtterances>>

InterimNext ==
    \/ InterimSetup
    \/ InterimOnStart
    \/ InterimOnResult
    \/ InterimOnEnd
    \/ InterimTimerRestart
    \/ InterimTimerStatus
    \/ InterimTimerVerdict

InterimSpec == Init /\ [][InterimNext]_vars

\* ------------------------------------------------------------------ claims
ClaimOps == {"onresult:claim", "keydown", "click", "testButton"}
ManualOps == {"keydown", "click", "testButton"}

\* claim events the step's handler(s) emitted, by the handler that ran
Emitted(op) ==
    CASE op \in {"onresult:claim", "testButton"} -> 1
      [] op = "keydown" -> keydownListeners
      [] op = "click" -> clickListeners
      [] OTHER -> 0

Min(a, b) == IF a <= b THEN a ELSE b

\* C1: in every reachable state 0 <= distortionLevel <= 5 and
\* humanityPercentage = max(0, 100 - 20 * distortionLevel).
C1_LevelAndHumanity ==
    /\ distortionLevel \in 0..maxDistortionLevel
    /\ humanityPercentage = Max(0, 100 - 20 * distortionLevel)

C1_Witness ==
    /\ lastOp \in ClaimOps
    /\ distortionLevel = maxDistortionLevel
    /\ humanityPercentage = 0

\* C2: only resetMirror() lowers distortionLevel; every other step leaves it
\* or raises it, and each claim event delivered below 5 raises it by
\* exactly 1 (a step that delivers n claim events raises it by n, up to 5).
C2_MonotoneUntilReset ==
    [][ /\ lastOp' # "resetMirror" => distortionLevel' >= distortionLevel
        /\ lastOp' \in ClaimOps =>
               distortionLevel' =
                   Min(maxDistortionLevel, distortionLevel + Emitted(lastOp')) ]_vars

C2_Witness ==
    /\ lastOp = "onresult:claim"
    /\ distortionLevel = 3
    /\ timers["status"] > 0

\* C3: a claim event delivered at distortionLevel = 5 changes nothing:
\* level, humanity, status label, tier, isListening, retryCount and
\* fallbackActive stay, and no timer (no further verdict timer) is scheduled.
C3_NoOpAtCeiling ==
    [][ (distortionLevel = maxDistortionLevel /\ lastOp' \in ClaimOps) =>
            UNCHANGED <<distortionLevel, humanityPercentage, indicator,
                        webcamClass, isListening, retryCount, fallbackActive,
                        timers>> ]_vars

\* the verdict is up and no verdict timer is pending, so the claim handler
\* that ran last found the level at 5 already
C3_Witness ==
    /\ lastOp \in ClaimOps
    /\ distortionLevel = maxDistortionLevel
    /\ verdictDisplay
    /\ timers["verdict"] = 0

\* C4: right after resetMirror(), from any state: level 0, humanity 100,
\* verdict panel hidden, retryCount 0 (with or without a recognition handle).
C4_AfterReset ==
    lastOp = "resetMirror" =>
        /\ distortionLevel = 0
        /\ humanityPercentage = 100
        /\ ~verdictDisplay
        /\ retryCount = 0

C4_Witness ==
    /\ lastOp = "resetMirror"
    /\ ~recognition
    /\ fallbackActive
    /\ distortionLevel = 0

\* every manual trigger reaches processHumanClaim and moves a level below 5
ManualTriggersClaim ==
    /\ keydownListeners >= 1 /\ clickListeners >= 1 /\ testButtons >= 1
    /\ distortionLevel < maxDistortionLevel =>
           /\ \A event \in {e \in KeyEvents : IsTriggerKey(e)} :
                  keydownHandlers(World, event).distortionLevel > distortionLevel
           /\ clickHandlers(World).distortionLevel > distortionLevel
           /\ processHumanClaim(World).distortionLevel > distortionLevel

\* C5 as stated: after maxRetries (5) consecutive transient errors delivered
\* while listening, with no successful start in between, the system is in
\* fallback mode and manual triggers produce claim events.
C5_FallbackAfterMaxRetries ==
    consecErrors >= maxRetries => (fallbackActive /\ ManualTriggersClaim)

\* C5 amended: the same after maxRetries + 1 (6) such errors with no
\* resetMirror() in between.
C5_FallbackAfterMaxRetriesPlusOne ==
    consecErrors >= maxRetries + 1 =>
        (fallbackActive /\ ~isListening /\ ManualTriggersClaim)

C5_Witness ==
    /\ consecErrors = maxRetries + 1
    /\ lastOp = "onerror:transient"
    /\ fallbackActive
    /\ keydownListeners = 1

\* C6: in fallback mode one manual trigger input emits exactly one claim
\* event (the level rises by exactly 1 when below 5), however often fallback
\* mode was entered.
C6_OneClaimPerTrigger ==
    [][ (fallbackActive /\ lastOp' \in ManualOps
            /\ distortionLevel < maxDistortionLevel) =>
            distortionLevel' = distortionLevel + 1 ]_vars

\* C7: after every failure either the retry control is operable or the
\* manual fallback triggers produce claim events; here for the failure that
\* shows the error panel.
C7_FailureLeavesAWayOut ==
    errorDisplay => (buttonListeners \/ ManualTriggersClaim)

\* C8: whenever a start request succeeds, retryCount is 0 afterwards.
C8_StartClearsRetryCount ==
    [][ (~sessionActive /\ sessionActive') => retryCount' = 0 ]_vars

\* C9: between handlers 0 <= retryCount <= maxRetries.
C9_RetryCountInRange == retryCount \in 0..maxRetries

\* the error handler that took the count past maxRetries ended in fallback
C9_Witness ==
    /\ lastOp = "onerror:transient"
    /\ indicator = "Fallback Mode"
    /\ retryCount = 0

\* C10: a transient-kind error (from the backend or from a throwing start())
\* arriving with retryCount < maxRetries increments retryCount and schedules
\* a restart; it neither enters fallback nor schedules the fallback entry.
C10_TransientErrorRetries ==
    [][ (lastOp' \in {"onerror:transient", "timer:onend:failed",
                      "timer:retry:failed"}
            /\ retryCount < maxRetries) =>
            /\ retryCount' = retryCount + 1
            /\ timers'["retry"] =
                   IF lastOp' = "timer:retry:failed" THEN timers["retry"]
                   ELSE timers["retry"] + 1
            /\ timers'["fallback"] = timers["fallback"]
            /\ fallbackActive' = fallbackActive ]_vars

\* C11: a permanent-kind error schedules the fallback entry whatever
\* retryCount is (and leaves retryCount alone); once that timer has fired the
\* system is in fallback mode: fallbackActive true, isListening false.
C11_PermanentErrorFallsBack ==
    [][ /\ lastOp' = "onerror:permanent" =>
               /\ timers'["fallback"] = timers["fallback"] + 1
               /\ retryCount' = retryCount
               /\ timers'["retry"] = timers["retry"]
        /\ lastOp' = "timer:fallback" =>
               /\ timers'["fallback"] = timers["fallback"] - 1
               /\ fallbackActive' /\ ~isListening'
               /\ keydownListeners' = keydownListeners + 1 ]_vars

\* fallback entered by the timer of a permanent error that arrived with a
\* partly used retry budget (the entry cleared the count)
C11_Witness ==
    /\ lastOp = "timer:fallback"
    /\ fallbackActive /\ ~isListening
    /\ consecErrors > 0
    /\ retryCount = 0

\* C12: each single claim below 5 raises the level by one and shows the
\* processing status; below 5 it schedules the status timer, which settles
\* the label to a listening/fallback status, and the claim that reaches 5
\* schedules the verdict timer instead, which displays the verdict panel.
C12_ClaimSequence ==
    [][ /\ (lastOp' \in {"onresult:claim", "testButton"}
              /\ distortionLevel < maxDistortionLevel) =>
               /\ distortionLevel' = distortionLevel + 1
               /\ indicator' = "Processing..."
               /\ IF distortionLevel' < maxDistortionLevel
                  THEN /\ timers'["status"] = timers["status"] + 1
                       /\ timers'["verdict"] = timers["verdict"]
                  ELSE /\ timers'["verdict"] = timers["verdict"] + 1
                       /\ timers'["status"] = timers["status"]
        /\ lastOp' = "timer:status" =>
               indicator' \in {"Listening...", "Fallback Mode"}
        /\ lastOp' = "timer:verdict" => verdictDisplay' ]_vars

\* the verdict timer of the claim that reached 5 has fired and every status
\* timer before it has settled the label
C12_Witness ==
    /\ lastOp = "timer:verdict"
    /\ distortionLevel = maxDistortionLevel
    /\ verdictDisplay
    /\ ~recognition
    /\ Pending(timers) = 0

\* C13: without the recognition capability init() ends in fallback mode with
\* no start request made, no timer pending and retryCount 0, and one click
\* on the mirror then emits exactly one claim (level 0 to 1).
C13_NoCapabilityFallsBackAtOnce ==
    (lastOp = "canplay" /\ ~capability) =>
        /\ fallbackActive /\ ~isListening
        /\ ~recognition /\ ~sessionActive /\ ~pendingStart
        /\ Pending(timers) = 0
        /\ retryCount = 0
        /\ indicator = "Fallback Mode"
        /\ clickListeners = 1
        /\ clickHandlers(World).distortionLevel = 1

C13_Witness ==
    /\ lastOp = "click"
    /\ ~capability
    /\ distortionLevel = 1
    /\ timers["status"] = 1

\* the result events whose newest utterance contains an accepted phrase,
\* by the check of the source on the lowercased, trimmed text
AcceptedResultEvents ==
    {results \in ResultEvents :
        detectHumanPhrase(transcriptOf(results[Len(results)]))}

\* C14: a result event emits exactly one claim (one step of
\* processHumanClaim: the level moves to min(5, level + 1) and below the
\* ceiling one timer is added) when its newest utterance contains an
\* accepted phrase, whatever older results are still in the list, and
\* leaves the program untouched otherwise.
C14_OneClaimPerResult ==
    /\ [](\A results \in ResultEvents :
             LET w == onresult(World, results)
             IN  IF results \in AcceptedResultEvents
                 THEN /\ w.distortionLevel =
                             Min(maxDistortionLevel, distortionLevel + 1)
                      /\ Pending(w.timers) = Pending(timers) +
                             (IF distortionLevel < maxDistortionLevel
                              THEN 1 ELSE 0)
                 ELSE w = World)
    /\ [][ lastOp' = "onresult:claim" =>
               /\ distortionLevel' =
                      Min(maxDistortionLevel, distortionLevel + 1)
               /\ Pending(timers') = Pending(timers) +
                      (IF distortionLevel < maxDistortionLevel
                       THEN 1 ELSE 0) ]_vars

\* an accepted utterance has been heard while listening and moved the level
\* from 1 to 2
C14_Witness ==
    /\ lastOp = "onresult:claim"
    /\ isListening /\ sessionActive
    /\ distortionLevel = 2
    /\ timers["status"] > 0

\* the same letter, whatever its case
C15_SameLetter(a, b) ==
    \/ a = b
    \/ <<a, b>> \in {<<"A","a">>, <<"B","b">>, <<"E","e">>, <<"G","g">>,
                     <<"H","h">>, <<"I","i">>, <<"M","m">>, <<"N","n">>,
                     <<"O","o">>, <<"P","p">>, <<"R","r">>, <<"S","s">>,
                     <<"T","t">>, <<"U","u">>}

\* the raw utterance contains the variant somewhere, case ignored
C15_ContainsIgnoringCase(raw, variant) ==
    \E k \in 0..(Len(raw) - Len(variant)) :
        \A j \in 1..Len(variant) : C15_SameLetter(raw[k + j], variant[j])

C15_Shout == <<"I"," ","A","M"," ","H","U","M","A","N","!">>
C15_WellYes == <<"w","e","l","l",","," ","i"," ","a","m"," ","a"," ","h","u","m","a","n"," ","b","e","i","n","g",","," ","y","e","s">>

\* C15: for every utterance the match result equals whether the lowercased,
\* trimmed text contains an accepted variant, which is whether the raw text
\* contains one with case ignored, surrounding blanks making no difference;
\* "I AM HUMAN!" and "well, i am a human being, yes" match.
C15_CaseInsensitiveSubstring ==
    /\ matched = (\E variant \in humanPhrases :
                     Includes(transcriptOf(heard), variant))
    /\ matched = (\E variant \in humanPhrases :
                     C15_ContainsIgnoringCase(heard, variant))
    /\ heard \in {C15_Shout, C15_WellYes} => matched

\* the upper-case utterance has been heard and it matched
C15_Witness == heard = C15_Shout /\ matched

C16_NotHuman == <<"i"," ","a","m"," ","n","o","t"," ","h","u","m","a","n">>

\* C16 as stated: the utterance "i am not human" matches the phrase check.
C16_NegationMatches == heard = C16_NotHuman => matched

\* C16: the utterance "i am not human" does not match the phrase check (no
\* accepted variant is a contiguous part of it) and a result event carrying
\* it emits no claim.
C16_NegationDoesNotMatch ==
    heard = C16_NotHuman =>
        /\ ~matched
        /\ onresult(World, <<heard>>) = World

\* "i am not human" has been heard and the check said no
C16_Witness == heard = C16_NotHuman /\ ~matched

\* the step called recognition.start(), whether it threw or not
StartRequested ==
    \/ lastOp' \in {"timer:onend:started", "timer:onend:failed",
                    "timer:retry:started", "timer:retry:failed",
                    "visible:started", "visible:failed"}
    \/ lastOp' = "canplay" /\ capability
    \/ lastOp' = "resetMirror" /\ recognition

\* C17: once fallback mode is entered (fallbackActive, isListening false),
\* every step other than resetMirror() leaves isListening false and
\* fallbackActive true, calls start() nowhere and opens no recognition
\* session, whichever timer, end-of-session or tab event it handles.
C17_FallbackStaysUntilReset ==
    [][ (fallbackActive /\ ~isListening /\ lastOp' # "resetMirror") =>
            /\ ~isListening'
            /\ fallbackActive'
            /\ ~StartRequested
            /\ sessionActive' => sessionActive
            /\ pendingStart' => pendingStart ]_vars

\* fallback mode has just been entered with a restart timer of
\* recognition.onend still pending and the session over
C17_Witness ==
    /\ lastOp = "timer:fallback"
    /\ fallbackActive /\ ~isListening
    /\ recognition /\ ~sessionActive
    /\ timers["onend"] = 1

\* C18: in fallback mode primary listening is disabled: right after
\* fallback mode is entered (no reset since), a recognized-utterance event
\* produces no claim.
C18_NoUtteranceClaimInFallback ==
    [][ (lastOp = "timer:fallback" /\ fallbackActive /\ ~isListening) =>
            lastOp' # "onresult:claim" ]_vars

\* C19: an end-of-session event that arrives while isListening is true
\* schedules the restart timer, and the timer, firing while isListening is
\* still true, calls start() (a new session opens unless one is already
\* running); an end event with isListening false schedules nothing, and a
\* timer firing with isListening false calls start() nowhere.
C19_EndOfSessionRestart ==
    [][ /\ lastOp' = "onend" =>
               /\ timers'["onend"] =
                      timers["onend"] + (IF isListening THEN 1 ELSE 0)
               /\ ~sessionActive'
               /\ ~StartRequested
               /\ isListening' = isListening
        /\ timers'["onend"] = timers["onend"] - 1 =>
               IF isListening
               THEN /\ lastOp' = IF sessionActive THEN "timer:onend:failed"
                                 ELSE "timer:onend:started"
                    /\ StartRequested
                    /\ ~sessionActive => sessionActive' /\ pendingStart'
               ELSE /\ lastOp' = "ignored"
                    /\ ~StartRequested
                    /\ ~isListening'
                    /\ sessionActive' = sessionActive
                    /\ pendingStart' = pendingStart ]_vars

\* the restart timer of an end-of-session event has fired while listening
\* and opened a new session
C19_Witness ==
    /\ lastOp = "timer:onend:started"
    /\ isListening
    /\ sessionActive /\ pendingStart
    /\ ~fallbackActive /\ ~verdictDisplay

\* C20: the verdict transition clears isListening and calls stop() on the
\* recognition object; while the verdict is shown every step other than
\* resetMirror() leaves isListening false, calls start() nowhere and opens
\* no session, whichever end-of-session, error, tab or timer event it
\* handles.
C20_VerdictStopsListening ==
    [][ /\ lastOp' = "timer:verdict" =>
               /\ verdictDisplay'
               /\ ~isListening'
               /\ recognition => stopRequested' = sessionActive
        /\ (verdictDisplay /\ lastOp' # "resetMirror") =>
               /\ ~isListening /\ ~isListening'
               /\ ~StartRequested
               /\ sessionActive' => sessionActive
               /\ pendingStart' => pendingStart ]_vars

\* the session stopped by the verdict has ended and no restart was
\* scheduled
C20_Witness ==
    /\ lastOp = "onend"
    /\ verdictDisplay /\ ~isListening
    /\ distortionLevel = maxDistortionLevel
    /\ recognition /\ ~sessionActive
    /\ timers["onend"] = 0

\* C23: whenever the verdict panel is displayed the level is at its
\* maximum, also after a reset with a verdict timer still pending.
C23_VerdictOnlyAtMaximum ==
    verdictDisplay => distortionLevel = maxDistortionLevel

\* C24: the mirror element carries at most one distortion tier, the tier of
\* the current level, and none at level 0.
C24_SingleCurrentTier ==
    webcamClass = IF distortionLevel > 0 THEN {distortionLevel} ELSE {}

\* C25: the label the status timer restores is the fallback-mode label if
\* and only if the system is in fallback mode when the timer fires, and the
\* listening label otherwise.
C25_RestoredLabelNamesInputMethod ==
    [][ lastOp' = "timer:status" =>
            indicator' = IF fallbackActive THEN "Fallback Mode"
                         ELSE "Listening..." ]_vars

\* C27: a step of claims that leaves the level below the maximum, and the
\* status timer it schedules, leave isListening, retryCount and
\* fallbackActive as they are (and the recognition object and its session
\* with them); the claim changes the level, the percentage, the tier, the
\* label and the timers only.
C27_ClaimLeavesRecognitionAlone ==
    [][ ((lastOp' \in ClaimOps /\ distortionLevel' < maxDistortionLevel)
            \/ lastOp' = "timer:status") =>
            /\ UNCHANGED <<isListening, retryCount, fallbackActive,
                           recognition, sessionActive, pendingStart,
                           stopRequested, keydownListeners, clickListeners,
                           testButtons, verdictDisplay, errorDisplay>>
            /\ lastOp' \in ClaimOps => timers["status"] < timers'["status"] ]_vars

\* the status timer of a claim made while listening with retries used up
\* has fired
C27_Witness ==
    /\ lastOp = "timer:status"
    /\ isListening /\ ~fallbackActive
    /\ retryCount > 0
    /\ distortionLevel \in 1..(maxDistortionLevel - 1)

C28_ImAHuman == <<"i","'","m"," ","a"," ","h","u","m","a","n">>

\* C28: an utterance with an "i'm" variant of the phrase ("i'm a human") is
\* accepted by the phrase check, like its "i am" counterpart.
C28_ContractionAccepted == heard = C28_ImAHuman => matched

\* C21: cleanup() clears isListening, calls stop() on the recognition
\* object and stops the tracks of the stream; after it no end-of-session
\* event, error event, timer or tab event calls start() or sets isListening
\* again (resetMirror() and an init() still waiting for canplay are what can).
C21_TeardownReleases ==
    [][ /\ lastOp' = "cleanup" =>
               /\ ~isListening'
               /\ recognition => stopRequested' = sessionActive
               /\ tracks # "none" => tracks' = "stopped"
               /\ tracks = "none" => ~recognition
               /\ ~StartRequested
        /\ (tracks = "stopped" /\ ~isListening
                /\ lastOp' \notin {"resetMirror", "canplay"}) =>
               /\ ~isListening'
               /\ ~StartRequested
               /\ tracks' = "stopped"
               /\ sessionActive' => sessionActive ]_vars

\* the session stopped by cleanup() has ended and no restart was scheduled
C21_Witness ==
    /\ lastOp = "onend"
    /\ tracks = "stopped"
    /\ ~isListening /\ recognition /\ ~sessionActive
    /\ ~verdictDisplay /\ ~fallbackActive
    /\ timers["onend"] = 0

\* C22: once started, the animation loop stays scheduled: no claim, verdict,
\* reset, fallback entry or tick stops it, and it is started by the time
\* init() has gone through.
C22_LoopNeverStops ==
    /\ [][loopRunning => loopRunning']_vars
    /\ []((initPc = "done" /\ buttonListeners) => loopRunning)
    /\ [](loopRunning => animate(World).loopRunning)

\* the verdict has stopped listening and the loop is still scheduled
C22_Witness ==
    /\ lastOp = "timer:verdict"
    /\ verdictDisplay /\ ~isListening
    /\ loopRunning

\* C30: a tab-hidden event while listening issues a stop request; the
\* tab-visible event that follows resumes, and a failing resume leaves
\* distortionLevel, retryCount, isListening and fallbackActive unchanged.
C30_HiddenPausesVisibleResumes ==
    (isListening /\ recognition /\ sessionActive) =>
        LET paused == visibilitychange(World, TRUE)
            resumed == visibilitychange(paused, FALSE)
        IN  /\ paused.stopRequested
            /\ resumed.distortionLevel = distortionLevel
            /\ resumed.retryCount = retryCount
            /\ resumed.isListening = isListening
            /\ resumed.fallbackActive = fallbackActive

\* the steps in which handleSpeechError ran on a transient error: an error
\* event of a transient kind, or a restart whose start() threw
TransientFailureOps ==
    {"onerror:transient", "timer:retry:failed", "timer:onend:failed"}

\* C26: if transient recognition failures keep being handled and
\* resetMirror() is never called, fallback mode is eventually entered: the
\* retry loop does not go on forever, and a failure handled while not
\* listening leads to fallback too.
C26_RetryLoopEndsInFallback ==
    ([]<>(lastOp \in TransientFailureOps) /\ [](lastOp # "resetMirror"))
        => <>fallbackActive

\* the transient error that used up the retry budget has entered fallback
\* mode itself
C26_Witness ==
    /\ lastOp = "onerror:transient"
    /\ fallbackActive /\ ~isListening
    /\ retryCount = 0
    /\ keydownListeners = 1
    /\ consecErrors > maxRetries

\* C29: in the interim-results variant one accepted utterance emits exactly
\* one claim over the whole session: the level is the number of accepted
\* utterances spoken so far (at most the maximum), whatever stays in the
\* result list.
C29_OneClaimPerAcceptedUtterance ==
    interimMirror.distortionLevel =
        Min(maxDistortionLevel, acceptedUtterances)

\* C31: no step calls recognition.start() on a session that is started and
\* has not ended, whichever restart timer, reset or tab-visible event it
\* handles (setupSpeechRecognition starts a fresh object and is left aside).
C31_NoStartWhileSessionActive ==
    [][ (StartRequested /\ lastOp' # "canplay") => ~sessionActive ]_vars

\* C32: with the recognition capability, once the one transient error and
\* its end-of-session event are delivered, no later step (neither of the two
\* restart timers) raises retryCount or enters fallback mode.
C32_SingleErrorNeverFallsBack ==
    [][ (capability /\ errorPhase = "ended") =>
            (retryCount' <= retryCount /\ ~fallbackActive') ]_vars

\* C33: isListening and fallbackActive are never both true, also after a
\* reset that follows a fallback entry.
C33_ListeningOrFallback == ~(isListening /\ fallbackActive)

\* C34: between two resets (or page load and the first reset) showVerdict
\* runs at most once: the verdict panel is shown by showVerdict and hidden by
\* resetMirror() only, so showVerdict never runs with the panel already shown.
C34_OneVerdictPerCycle ==
    [][ lastOp' = "timer:verdict" => ~verdictDisplay ]_vars

\* C35: between handlers the humanity readout shows the current
\* humanityPercentage; after resetMirror() it shows 100, whether the
\* recognition session was running, over or absent when the reset came.
C35_ReadoutShowsHumanity ==
    /\ humanityText = humanityPercentage
    /\ lastOp = "resetMirror" => humanityText = 100

\* C36: once fallbackActive is true every step leaves it true, resetMirror()
\* included, and leaves the manual trigger listeners installed; in every
\* such state, also after a reset that restarted recognition, a trigger key,
\* a click on the mirror and the test button each emit a claim.
C36_FallbackIsForGood ==
    /\ [][ fallbackActive =>
               /\ fallbackActive'
               /\ keydownListeners' >= keydownListeners
               /\ clickListeners' >= clickListeners
               /\ testButtons' >= testButtons ]_vars
    /\ [](fallbackActive => ManualTriggersClaim)
    /\ [][ (fallbackActive /\ lastOp' \in ManualOps
               /\ distortionLevel < maxDistortionLevel) =>
               distortionLevel' > distortionLevel ]_vars

\* a manual trigger has emitted a claim after a reset restarted recognition
\* in a run that had entered fallback mode
C36_Witness ==
    /\ lastOp \in ManualOps
    /\ fallbackActive
    /\ isListening /\ sessionActive
    /\ retryCount = 0
    /\ distortionLevel = 1
    /\ timers["status"] = 1

\* C37: as long as fallback mode has not been entered no manual trigger is
\* installed: a key press and a click on the mirror change nothing, there is
\* no test button, and a step that raises the level handles a recognized
\* utterance.
C37_NoManualClaimBeforeFallback ==
    /\ [](~fallbackActive =>
             /\ keydownListeners = 0 /\ clickListeners = 0 /\ testButtons = 0
             /\ \A event \in KeyEvents : keydownHandlers(World, event) = World
             /\ clickHandlers(World) = World)
    /\ [][ (~fallbackActive /\ ~fallbackActive') =>
               /\ lastOp' \notin ManualOps
               /\ distortionLevel' > distortionLevel =>
                      (lastOp' = "onresult:claim" /\ sessionActive) ]_vars

\* two utterances have raised the level while listening, fallback mode
\* never entered
C37_Witness ==
    /\ ~fallbackActive
    /\ lastOp = "onresult:claim"
    /\ isListening /\ sessionActive
    /\ distortionLevel = 2
    /\ keydownListeners = 0 /\ clickListeners = 0

C38_ShortestVariants ==
    { <<"i"," ","a","m"," ","h","u","m","a","n">>,
      <<"i"," ","a","m"," ","a"," ","h","u","m","a","n">>,
      <<"i"," ","a","m"," ","t","h","e"," ","h","u","m","a","n">> }

C38_HumanBeing ==
    <<"w","e","l","l",","," ","i"," ","a","m"," ","a"," ","h","u","m","a","n"," ","b","e","i","n","g","!">>

\* C38: for every utterance the phrase check gives what a check against
\* "i am human", "i am a human" and "i am the human" alone gives; the six
\* longer variants of the list change no outcome.
C38_LongerVariantsRedundant ==
    matched = (\E variant \in C38_ShortestVariants :
                  Includes(transcriptOf(heard), variant))

\* an utterance with one of the longer variants has been heard and matched
C38_Witness == heard = C38_HumanBeing /\ matched

====
